---- MODULE Spec2Model ----
(***************************************************************************)
(* Scenario submission and progression workflow of the training platform   *)
(* API: POST /scenarios/:id/submit (requireAuth, ScenarioController.submit) *)
(* over the Scenario, ScenarioStep, Attempt, UserLevel, Badge and UserBadge *)
(* stores.  Every request is a process that advances from one awaited      *)
(* persistence call to the next; the synchronous code between two awaits   *)
(* belongs to the action of the call it follows.                           *)
(***************************************************************************)
EXTENDS Integers, Sequences, FiniteSets, TLC

(* ------------------------------ bounds -------------------------------- *)
NumProcs == 2
NumUsers == 2
MaxRequests == 3
MaxConcurrent == 2
MaxDeletes == 1
MaxSteps == 3
MaxAnswers == 3
MaxGraded == 1
MaxAccounts == 3

(* ------------------------- program constants -------------------------- *)
MaxLevel == 6
TopLevel == MaxLevel + 1

Procs == 1..NumProcs
Users == 1..NumUsers
Levels == 1..TopLevel

(* ----------------------------- catalogue ------------------------------ *)
\* Scenario ids of the catalogue and the level each belongs to: two
\* scenarios in level 5 and one in the ceiling level 6.
LevelOf == <<5, 5, 6>>
ScenarioIds == DOMAIN LevelOf
UnknownId == Len(LevelOf) + 1

\* One badge per level, by convention; level 5 has none.
BadgeLevels == {6}
BadgeIdOf(level) == 10 + level
BadgeIds == {BadgeIdOf(l) : l \in BadgeLevels}

\* step_order values are not the positions: they leave gaps.
StepOrders == {2 * k : k \in 1..MaxSteps}
CorrectActions == {"A", "b", ""}
StepRows == [step_order : StepOrders, correct_action : CorrectActions]

\* null / undefined in an answer array
NULL == "<null>"
AnswerValues == {"a", "B", "", NULL}

VARIABLES
  scenarioStore,   \* set of scenario ids that exist (Scenario table)
  stepStore,       \* scenario id -> set of ScenarioStep rows
  attempts,        \* Attempt table, keyed (user, scenario)
  userLevels,      \* UserLevel table, keyed (user, level)
  userBadges,      \* UserBadge table: number of rows per (user, badge)
  uniqueUserBadge, \* whether the store rejects a second (user, badge) row
  pc,              \* per request: the call it is awaiting
  req,             \* per request: token, :id, body.userAnswers
  local,           \* per request: the local variables of submit
  result,          \* per request: the response sent
  calls,           \* per request: the store operations it has invoked
  createCalls,     \* UserBadge create invocations per (user, badge)
  started,         \* number of requests received so far
  deleted,         \* number of scenario deletions so far
  last,            \* the previous finished authenticated submission
  userStore,       \* the role of each account, "none" while it does not exist
  issued           \* the access tokens signed so far: subject and role

vars == <<scenarioStore, stepStore, attempts, userLevels, userBadges,
          uniqueUserBadge, pc, req, local, result, calls, createCalls,
          started, deleted, last, userStore, issued>>

accounts == <<userStore, issued>>

stores == <<scenarioStore, stepStore, attempts, userLevels, userBadges>>

(* ------------------------------ rows ---------------------------------- *)
NoAttempt == [exists |-> FALSE, score |-> 0, all_correct |-> FALSE]
NoUserLevel == [exists |-> FALSE, unlocked |-> FALSE, completed |-> FALSE]
NoProgress == [present |-> FALSE, completed |-> FALSE, next_level_unlocked |-> 0,
               perfect_in_level |-> 0, total_in_level |-> 0]
NoRequest == [token |-> 0, id |-> 0, isArray |-> FALSE, userAnswers |-> <<>>]
NoLocal == [userId |-> 0, level_id |-> 0, fetched |-> <<>>, steps |-> <<>>, score |-> 0,
            allCorrect |-> FALSE, perfectInLevel |-> 0, totalInLevel |-> 0,
            completedThisLevel |-> FALSE, badge |-> 0, failedAt |-> ""]
NoResult == [status |-> 0, score |-> 0, all_correct |-> FALSE, level_id |-> 0,
             scenario_id |-> 0, level_progress |-> NoProgress,
             awarded_badge |-> 0, updated_scenario |-> FALSE, error |-> ""]
NoLast == [valid |-> FALSE, user |-> 0, scenario |-> 0, score |-> 0,
           all_correct |-> FALSE,
           attempts |-> [k \in Users \X ScenarioIds |-> NoAttempt],
           userLevels |-> [k \in Users \X Levels |-> NoUserLevel],
           userBadges |-> [k \in Users \X BadgeIds |-> 0]]

(* --------------------------- grading engine --------------------------- *)
\* String.prototype.toUpperCase on the strings of the model
toUpperCase(s) == CASE s = "a" -> "A" [] s = "b" -> "B" [] OTHER -> s

\* (x || ""): null, undefined and "" all become ""
OrEmpty(x) == IF x = NULL \/ x = "" THEN "" ELSE x

\* userAnswers[i] for the 0-based index i; undefined past the end
AnswerAt(userAnswers, i) ==
  IF i + 1 <= Len(userAnswers) THEN userAnswers[i + 1] ELSE NULL

RECURSIVE InsertStep(_, _)
InsertStep(x, s) ==
  IF s = <<>> THEN <<x>>
  ELSE IF x.step_order <= Head(s).step_order THEN <<x>> \o s
  ELSE <<Head(s)>> \o InsertStep(x, Tail(s))

\* the rows left in the order the lookup returned them
SortStepsOmitted(s) == s

\* steps.sort((a, b) => Number(a.step_order) - Number(b.step_order)), stable
RECURSIVE SortSteps(_)
SortSteps(s) ==
  IF s = <<>> THEN <<>> ELSE InsertStep(Head(s), SortSteps(Tail(s)))

\* the comparison without the test that an answer was picked
StepCorrectUnguarded(step, userAnswers, i) ==
  LET picked == toUpperCase(OrEmpty(AnswerAt(userAnswers, i)))
      correct == toUpperCase(OrEmpty(step.correct_action))
  IN  picked = correct

\* the forEach body: picked && picked === correct
StepCorrect(step, userAnswers, i) ==
  LET picked == toUpperCase(OrEmpty(AnswerAt(userAnswers, i)))
      correct == toUpperCase(OrEmpty(step.correct_action))
  IN  picked # "" /\ picked = correct

CorrectCount(sorted, userAnswers) ==
  Cardinality({i \in 0..(Len(sorted) - 1) :
                 StepCorrect(sorted[i + 1], userAnswers, i)})

\* the percentage truncated instead of rounded
RoundPercentTruncated(correctCount, total) == (100 * correctCount) \div total

\* Math.round((correctCount / total) * 100): nearest integer, halves up
RoundPercent(correctCount, total) ==
  (200 * correctCount + total) \div (2 * total)

\* every order in which the step lookup may return the rows of a scenario
Orderings(rows) ==
  {s \in [1..Cardinality(rows) -> rows] : \A r \in rows : \E i \in DOMAIN s : s[i] = r}

(* ------------------------------ stores -------------------------------- *)
\* ScenarioRepository.countByLevel
countByLevel(level) ==
  Cardinality({s \in scenarioStore : LevelOf[s] = level})

\* AttemptRepository.countPerfectByUserInLevel
countPerfectByUserInLevel(u, level) ==
  Cardinality({s \in scenarioStore :
                 /\ LevelOf[s] = level
                 /\ attempts[<<u, s>>].exists
                 /\ attempts[<<u, s>>].all_correct})

\* AttemptRepository.upsertBestScore: one row per (user, scenario), overwritten
upsertBestScore(u, s, score, allCorrect) ==
  [attempts EXCEPT ![<<u, s>>] =
     [exists |-> TRUE, score |-> score, all_correct |-> allCorrect]]

\* UserLevelRepository.upsertProgress: one row per (user, level), both flags set
upsertProgress(rows, u, level, unlocked, completed) ==
  [rows EXCEPT ![<<u, level>>] =
     [exists |-> TRUE, unlocked |-> unlocked, completed |-> completed]]

\* BadgesRepository.findByLevel: the badge id, or 0 when the level has none
findByLevel(level) == IF level \in BadgeLevels THEN BadgeIdOf(level) ELSE 0

\* UserBadgeRepository.findByUserAndBadge
findByUserAndBadge(u, b) == userBadges[<<u, b>>] > 0

(* ---------------------------- middlewares ----------------------------- *)
\* the route without the authentication middleware
requireAuthOmitted(token) == TRUE

\* requireAuth: a request passes only with a valid bearer token, whose
\* subject becomes req.user.id; 0 stands for a missing or invalid token.
requireAuth(token) == token \in Users

\* errorHandler: the status sent for an error handed to next(e)
errorHandler(code) ==
  CASE code = "ER_DUP_ENTRY" -> 400
    [] code = "ER_NO_REFERENCED_ROW_2" -> 400
    [] code = "ECONNREFUSED" -> 503
    [] OTHER -> 500

(* ------------------------------ requests ------------------------------ *)
Tokens == {0} \cup Users
RequestIds == ScenarioIds \cup {UnknownId}

\* The request bodies of the workflow specifications: no array, an array
\* that answers nothing, and an array that is perfect for every scenario.
ArrayBodies == {[isArray |-> TRUE, userAnswers |-> a] : a \in {<<>>, <<"a">>}}
WorkflowBodies == {[isArray |-> FALSE, userAnswers |-> <<>>]} \cup ArrayBodies

\* The step rows of the catalogue: every scenario has one step.
CatalogueSteps ==
  [s \in ScenarioIds |-> {[step_order |-> 2, correct_action |-> "A"]}]

AllIdle == \A q \in Procs : pc[q] = "idle"

Respond(p, status) ==
  /\ result' = [result EXCEPT ![p].status = status]
  /\ pc' = [pc EXCEPT ![p] = "done"]

\* the body accepted whatever userAnswers is
IsArrayOmitted(body) == TRUE

\* Array.isArray(userAnswers): false for a missing userAnswers as well
IsArray(body) == body.isArray

\* POST /scenarios/:id/submit arrives: requireAuth, then submit up to its
\* first await (the userAnswers check).
Receive(p, token, id, body) ==
  /\ pc[p] = "idle"
  /\ \A q \in Procs : q < p => pc[q] # "idle"
  /\ started < MaxRequests
  /\ started' = started + 1
  /\ req' = [req EXCEPT ![p] = [token |-> token, id |-> id,
                                isArray |-> body.isArray,
                                userAnswers |-> body.userAnswers]]
  /\ IF ~requireAuth(token)
       THEN Respond(p, 401) /\ UNCHANGED local
       ELSE /\ local' = [local EXCEPT ![p].userId = token]
            /\ IF ~IsArray(body)
                 THEN Respond(p, 400)
                 ELSE /\ pc' = [pc EXCEPT ![p] = "getScenario"]
                      /\ UNCHANGED result
  /\ UNCHANGED <<stores, uniqueUserBadge, calls, createCalls, deleted, last>>
  /\ UNCHANGED accounts

\* scenarioService.getScenario(scenarioId) returns
GetScenario(p) ==
  /\ pc[p] = "getScenario"
  /\ calls' = [calls EXCEPT ![p] = @ \cup {"getScenario"}]
  /\ IF req[p].id \notin scenarioStore
       THEN Respond(p, 404) /\ UNCHANGED local
       ELSE /\ local' = [local EXCEPT ![p].level_id = LevelOf[req[p].id]]
            /\ pc' = [pc EXCEPT ![p] = "getStepsByScenario"]
            /\ UNCHANGED result
  /\ UNCHANGED <<stores, uniqueUserBadge, req, createCalls, started, deleted, last>>
  /\ UNCHANGED accounts

\* scenarioStepService.getStepsByScenario(scenarioId) returns the rows of the
\* scenario in an order the store chooses.
GetStepsByScenario(p) ==
  /\ pc[p] = "getStepsByScenario"
  /\ calls' = [calls EXCEPT ![p] = @ \cup {"getStepsByScenario"}]
  /\ \E fetched \in Orderings(stepStore[req[p].id]) :
       local' = [local EXCEPT ![p].fetched = fetched, ![p].steps = fetched]
  /\ pc' = [pc EXCEPT ![p] = "grade"]
  /\ UNCHANGED <<stores, uniqueUserBadge, req, result, createCalls, started,
                 deleted, last>>
  /\ UNCHANGED accounts

\* the grading entered also with an empty step list: nothing is counted,
\* 0 === 0 makes the submission all-correct
GradeEmptyAccepted(p) ==
  /\ pc[p] = "grade"
  /\ LET sorted == SortSteps(local[p].steps)
         total == Len(sorted)
         correctCount == CorrectCount(sorted, req[p].userAnswers)
         score == IF total = 0 THEN 0 ELSE RoundPercent(correctCount, total)
         allCorrect == (correctCount = total)
         graded == [result[p] EXCEPT !.score = score,
                                     !.all_correct = allCorrect,
                                     !.level_id = local[p].level_id,
                                     !.scenario_id = req[p].id]
     IN  /\ local' = [local EXCEPT ![p].steps = sorted,
                                   ![p].score = score,
                                   ![p].allCorrect = allCorrect]
         /\ result' = [result EXCEPT ![p] = graded]
         /\ pc' = [pc EXCEPT ![p] = "upsertBestScore"]
  /\ UNCHANGED <<stores, uniqueUserBadge, req, calls, createCalls, started,
                 deleted, last>>
  /\ UNCHANGED accounts

\* submit from the step check to the next await: sort, grade, build result
Grade(p) ==
  /\ pc[p] = "grade"
  /\ IF Len(local[p].steps) = 0
       THEN Respond(p, 404) /\ UNCHANGED local
       ELSE LET sorted == SortSteps(local[p].steps)
                total == Len(sorted)
                correctCount == CorrectCount(sorted, req[p].userAnswers)
                score == RoundPercent(correctCount, total)
                allCorrect == (correctCount = total)
                graded == [result[p] EXCEPT !.score = score,
                                            !.all_correct = allCorrect,
                                            !.level_id = local[p].level_id,
                                            !.scenario_id = req[p].id]
            IN  /\ local' = [local EXCEPT ![p].steps = sorted,
                                          ![p].score = score,
                                          ![p].allCorrect = allCorrect]
                /\ IF local[p].userId # 0
                     THEN /\ result' = [result EXCEPT ![p] = graded]
                          /\ pc' = [pc EXCEPT ![p] = "upsertBestScore"]
                     ELSE /\ result' = [result EXCEPT ![p] =
                                          [graded EXCEPT !.status = 200]]
                          /\ pc' = [pc EXCEPT ![p] = "done"]
  /\ UNCHANGED <<stores, uniqueUserBadge, req, calls, createCalls, started,
                 deleted, last>>
  /\ UNCHANGED accounts

\* the write made only when the score improves on the stored one
UpsertBestScoreIfHigher(p) ==
  /\ pc[p] = "upsertBestScore"
  /\ calls' = [calls EXCEPT ![p] = @ \cup {"upsertBestScore"}]
  /\ attempts' = IF /\ attempts[<<local[p].userId, req[p].id>>].exists
                    /\ attempts[<<local[p].userId, req[p].id>>].score >= local[p].score
                   THEN attempts
                   ELSE upsertBestScore(local[p].userId, req[p].id,
                                        local[p].score, local[p].allCorrect)
  /\ pc' = [pc EXCEPT ![p] = "countPerfectByUserInLevel"]
  /\ UNCHANGED <<scenarioStore, stepStore, userLevels, userBadges,
                 uniqueUserBadge, req, local, result, createCalls, started,
                 deleted, last>>
  /\ UNCHANGED accounts

\* attemptRepo.upsertBestScore
UpsertBestScore(p) ==
  /\ pc[p] = "upsertBestScore"
  /\ calls' = [calls EXCEPT ![p] = @ \cup {"upsertBestScore"}]
  /\ attempts' = upsertBestScore(local[p].userId, req[p].id, local[p].score,
                                 local[p].allCorrect)
  /\ pc' = [pc EXCEPT ![p] = "countPerfectByUserInLevel"]
  /\ UNCHANGED <<scenarioStore, stepStore, userLevels, userBadges,
                 uniqueUserBadge, req, local, result, createCalls, started,
                 deleted, last>>
  /\ UNCHANGED accounts

\* the perfect count as it was before the submission's own write
CountPerfectByUserInLevelStale(p) ==
  /\ pc[p] = "countPerfectByUserInLevel"
  /\ calls' = [calls EXCEPT ![p] = @ \cup {"countPerfectByUserInLevel"}]
  /\ local' = [local EXCEPT ![p].perfectInLevel =
                 Cardinality({s \in scenarioStore \ {req[p].id} :
                                /\ LevelOf[s] = local[p].level_id
                                /\ attempts[<<local[p].userId, s>>].exists
                                /\ attempts[<<local[p].userId, s>>].all_correct})]
  /\ pc' = [pc EXCEPT ![p] = "countByLevel"]
  /\ UNCHANGED <<stores, uniqueUserBadge, req, result, createCalls, started,
                 deleted, last>>
  /\ UNCHANGED accounts

\* attemptRepo.countPerfectByUserInLevel
CountPerfectByUserInLevel(p) ==
  /\ pc[p] = "countPerfectByUserInLevel"
  /\ calls' = [calls EXCEPT ![p] = @ \cup {"countPerfectByUserInLevel"}]
  /\ local' = [local EXCEPT ![p].perfectInLevel =
                 countPerfectByUserInLevel(local[p].userId, local[p].level_id)]
  /\ pc' = [pc EXCEPT ![p] = "countByLevel"]
  /\ UNCHANGED <<stores, uniqueUserBadge, req, result, createCalls, started,
                 deleted, last>>
  /\ UNCHANGED accounts

\* the comparison of the two counts without the test for an empty level
CompletedThisLevelUnguarded(perfectInLevel, totalInLevel) ==
  perfectInLevel = totalInLevel

\* totalInLevel > 0 && perfectInLevel === totalInLevel
CompletedThisLevel(perfectInLevel, totalInLevel) ==
  totalInLevel > 0 /\ perfectInLevel = totalInLevel

\* scenarioRepository.countByLevel, then completedThisLevel
CountByLevel(p) ==
  /\ pc[p] = "countByLevel"
  /\ calls' = [calls EXCEPT ![p] = @ \cup {"countByLevel"}]
  /\ LET totalInLevel == countByLevel(local[p].level_id)
     IN  local' = [local EXCEPT
                     ![p].totalInLevel = totalInLevel,
                     ![p].completedThisLevel =
                        CompletedThisLevel(local[p].perfectInLevel, totalInLevel)]
  /\ pc' = [pc EXCEPT ![p] = "upsertProgress"]
  /\ UNCHANGED <<stores, uniqueUserBadge, req, result, createCalls, started,
                 deleted, last>>
  /\ UNCHANGED accounts

\* the ceiling test off by one
BelowCeilingInclusive(level) == level <= MaxLevel

\* scenario.level_id < 6
BelowCeiling(level) == level < MaxLevel

CompletedProgress(level) ==
  [present |-> TRUE, completed |-> TRUE, next_level_unlocked |-> level + 1,
   perfect_in_level |-> 0, total_in_level |-> 0]

IncompleteProgress(perfectInLevel, totalInLevel) ==
  [present |-> TRUE, completed |-> FALSE, next_level_unlocked |-> 0,
   perfect_in_level |-> perfectInLevel, total_in_level |-> totalInLevel]

\* the current level's completion kept once it has been set
UpsertProgressSticky(p) ==
  /\ pc[p] = "upsertProgress"
  /\ calls' = [calls EXCEPT ![p] = @ \cup {"upsertProgress"}]
  /\ userLevels' = upsertProgress(userLevels, local[p].userId, local[p].level_id,
                                  TRUE,
                                  \/ local[p].completedThisLevel
                                  \/ userLevels[<<local[p].userId,
                                                  local[p].level_id>>].completed)
  /\ IF local[p].completedThisLevel
       THEN IF BelowCeiling(local[p].level_id)
              THEN /\ pc' = [pc EXCEPT ![p] = "upsertNextLevel"]
                   /\ UNCHANGED result
              ELSE /\ pc' = [pc EXCEPT ![p] = "findByLevel"]
                   /\ result' = [result EXCEPT ![p].level_progress =
                                   CompletedProgress(local[p].level_id)]
       ELSE /\ pc' = [pc EXCEPT ![p] = "getUpdatedScenario"]
            /\ result' = [result EXCEPT ![p].level_progress =
                            IncompleteProgress(local[p].perfectInLevel,
                                               local[p].totalInLevel)]
  /\ UNCHANGED <<scenarioStore, stepStore, attempts, userBadges,
                 uniqueUserBadge, req, local, createCalls, started, deleted,
                 last>>
  /\ UNCHANGED accounts

\* the badge steps entered whether or not the level was found completed
UpsertProgressAwarding(p) ==
  /\ pc[p] = "upsertProgress"
  /\ calls' = [calls EXCEPT ![p] = @ \cup {"upsertProgress"}]
  /\ userLevels' = upsertProgress(userLevels, local[p].userId, local[p].level_id,
                                  TRUE, local[p].completedThisLevel)
  /\ IF local[p].completedThisLevel
       THEN IF BelowCeiling(local[p].level_id)
              THEN /\ pc' = [pc EXCEPT ![p] = "upsertNextLevel"]
                   /\ UNCHANGED result
              ELSE /\ pc' = [pc EXCEPT ![p] = "findByLevel"]
                   /\ result' = [result EXCEPT ![p].level_progress =
                                   CompletedProgress(local[p].level_id)]
       ELSE /\ pc' = [pc EXCEPT ![p] = "findByLevel"]
            /\ result' = [result EXCEPT ![p].level_progress =
                            IncompleteProgress(local[p].perfectInLevel,
                                               local[p].totalInLevel)]
  /\ UNCHANGED <<scenarioStore, stepStore, attempts, userBadges,
                 uniqueUserBadge, req, local, createCalls, started, deleted,
                 last>>
  /\ UNCHANGED accounts

\* the badge of the level taken back when the level is found not completed
UpsertProgressRevoking(p) ==
  /\ pc[p] = "upsertProgress"
  /\ calls' = [calls EXCEPT ![p] = @ \cup {"upsertProgress"}]
  /\ userLevels' = upsertProgress(userLevels, local[p].userId, local[p].level_id,
                                  TRUE, local[p].completedThisLevel)
  /\ userBadges' =
       IF ~local[p].completedThisLevel /\ findByLevel(local[p].level_id) # 0
         THEN [userBadges EXCEPT
                 ![<<local[p].userId, findByLevel(local[p].level_id)>>] = 0]
         ELSE userBadges
  /\ IF local[p].completedThisLevel
       THEN IF BelowCeiling(local[p].level_id)
              THEN /\ pc' = [pc EXCEPT ![p] = "upsertNextLevel"]
                   /\ UNCHANGED result
              ELSE /\ pc' = [pc EXCEPT ![p] = "findByLevel"]
                   /\ result' = [result EXCEPT ![p].level_progress =
                                   CompletedProgress(local[p].level_id)]
       ELSE /\ pc' = [pc EXCEPT ![p] = "getUpdatedScenario"]
            /\ result' = [result EXCEPT ![p].level_progress =
                            IncompleteProgress(local[p].perfectInLevel,
                                               local[p].totalInLevel)]
  /\ UNCHANGED <<scenarioStore, stepStore, attempts,
                 uniqueUserBadge, req, local, createCalls, started, deleted,
                 last>>
  /\ UNCHANGED accounts

\* userLevelRepo.upsertProgress for the scenario's level
UpsertProgress(p) ==
  /\ pc[p] = "upsertProgress"
  /\ calls' = [calls EXCEPT ![p] = @ \cup {"upsertProgress"}]
  /\ userLevels' = upsertProgress(userLevels, local[p].userId, local[p].level_id,
                                  TRUE, local[p].completedThisLevel)
  /\ IF local[p].completedThisLevel
       THEN IF BelowCeiling(local[p].level_id)
              THEN /\ pc' = [pc EXCEPT ![p] = "upsertNextLevel"]
                   /\ UNCHANGED result
              ELSE /\ pc' = [pc EXCEPT ![p] = "findByLevel"]
                   /\ result' = [result EXCEPT ![p].level_progress =
                                   CompletedProgress(local[p].level_id)]
       ELSE /\ pc' = [pc EXCEPT ![p] = "getUpdatedScenario"]
            /\ result' = [result EXCEPT ![p].level_progress =
                            IncompleteProgress(local[p].perfectInLevel,
                                               local[p].totalInLevel)]
  /\ UNCHANGED <<scenarioStore, stepStore, attempts, userBadges,
                 uniqueUserBadge, req, local, createCalls, started, deleted,
                 last>>
  /\ UNCHANGED accounts

\* the unlock written one level too far
UpsertNextLevelSkipping(p) ==
  /\ pc[p] = "upsertNextLevel"
  /\ calls' = [calls EXCEPT ![p] = @ \cup {"upsertNextLevel"}]
  /\ userLevels' = upsertProgress(userLevels, local[p].userId,
                                  local[p].level_id + 2, TRUE, FALSE)
  /\ result' = [result EXCEPT ![p].level_progress =
                  CompletedProgress(local[p].level_id)]
  /\ pc' = [pc EXCEPT ![p] = "findByLevel"]
  /\ UNCHANGED <<scenarioStore, stepStore, attempts, userBadges,
                 uniqueUserBadge, req, local, createCalls, started, deleted,
                 last>>
  /\ UNCHANGED accounts

\* userLevelRepo.upsertProgress for level_id + 1
UpsertNextLevel(p) ==
  /\ pc[p] = "upsertNextLevel"
  /\ calls' = [calls EXCEPT ![p] = @ \cup {"upsertNextLevel"}]
  /\ userLevels' = upsertProgress(userLevels, local[p].userId,
                                  local[p].level_id + 1, TRUE, FALSE)
  /\ result' = [result EXCEPT ![p].level_progress =
                  CompletedProgress(local[p].level_id)]
  /\ pc' = [pc EXCEPT ![p] = "findByLevel"]
  /\ UNCHANGED <<scenarioStore, stepStore, attempts, userBadges,
                 uniqueUserBadge, req, local, createCalls, started, deleted,
                 last>>
  /\ UNCHANGED accounts

\* badgeRepo.findByLevel
FindByLevel(p) ==
  /\ pc[p] = "findByLevel"
  /\ calls' = [calls EXCEPT ![p] = @ \cup {"findByLevel"}]
  /\ LET badge == findByLevel(local[p].level_id)
     IN  /\ local' = [local EXCEPT ![p].badge = badge]
         /\ pc' = [pc EXCEPT ![p] =
                     IF badge # 0 THEN "findByUserAndBadge"
                     ELSE "getUpdatedScenario"]
  /\ UNCHANGED <<stores, uniqueUserBadge, req, result, createCalls, started,
                 deleted, last>>
  /\ UNCHANGED accounts

\* the award made without looking at the row found
FindByUserAndBadgeIgnored(p) ==
  /\ pc[p] = "findByUserAndBadge"
  /\ calls' = [calls EXCEPT ![p] = @ \cup {"findByUserAndBadge"}]
  /\ pc' = [pc EXCEPT ![p] = "create"]
  /\ UNCHANGED <<stores, uniqueUserBadge, req, local, result, createCalls,
                 started, deleted, last>>
  /\ UNCHANGED accounts

\* the badge reported as awarded also when the row was found
FindByUserAndBadgeReported(p) ==
  /\ pc[p] = "findByUserAndBadge"
  /\ calls' = [calls EXCEPT ![p] = @ \cup {"findByUserAndBadge"}]
  /\ LET existing == findByUserAndBadge(local[p].userId, local[p].badge)
     IN  /\ pc' = [pc EXCEPT ![p] =
                     IF ~existing THEN "create" ELSE "getUpdatedScenario"]
         /\ result' = [result EXCEPT ![p].awarded_badge =
                         IF existing THEN local[p].badge ELSE @]
  /\ UNCHANGED <<stores, uniqueUserBadge, req, local, createCalls,
                 started, deleted, last>>
  /\ UNCHANGED accounts

\* userBadgeRepo.findByUserAndBadge
FindByUserAndBadge(p) ==
  /\ pc[p] = "findByUserAndBadge"
  /\ calls' = [calls EXCEPT ![p] = @ \cup {"findByUserAndBadge"}]
  /\ LET existing == findByUserAndBadge(local[p].userId, local[p].badge)
     IN  pc' = [pc EXCEPT ![p] =
                  IF ~existing THEN "create" ELSE "getUpdatedScenario"]
  /\ UNCHANGED <<stores, uniqueUserBadge, req, local, result, createCalls,
                 started, deleted, last>>
  /\ UNCHANGED accounts

\* the row inserted without being reported in the response
CreateUserBadgeSilent(p) ==
  /\ pc[p] = "create"
  /\ calls' = [calls EXCEPT ![p] = @ \cup {"create"}]
  /\ LET key == <<local[p].userId, local[p].badge>>
     IN  /\ createCalls' = [createCalls EXCEPT ![key] = @ + 1]
         /\ IF uniqueUserBadge /\ userBadges[key] > 0
              THEN /\ result' = [result EXCEPT ![p] =
                        [NoResult EXCEPT !.status = errorHandler("ER_DUP_ENTRY"),
                                         !.error = "ER_DUP_ENTRY"]]
                   /\ local' = [local EXCEPT ![p].failedAt = "create"]
                   /\ pc' = [pc EXCEPT ![p] = "done"]
                   /\ UNCHANGED userBadges
              ELSE /\ userBadges' = [userBadges EXCEPT ![key] = @ + 1]
                   /\ pc' = [pc EXCEPT ![p] = "getUpdatedScenario"]
                   /\ UNCHANGED <<local, result>>
  /\ UNCHANGED <<scenarioStore, stepStore, attempts, userLevels,
                 uniqueUserBadge, req, started, deleted, last>>
  /\ UNCHANGED accounts

\* userBadgeRepo.create: inserts a row; a store with a uniqueness
\* constraint rejects a second row of the pair with ER_DUP_ENTRY, which
\* submit hands to next(e).
CreateUserBadge(p) ==
  /\ pc[p] = "create"
  /\ calls' = [calls EXCEPT ![p] = @ \cup {"create"}]
  /\ LET key == <<local[p].userId, local[p].badge>>
     IN  /\ createCalls' = [createCalls EXCEPT ![key] = @ + 1]
         /\ IF uniqueUserBadge /\ userBadges[key] > 0
              THEN /\ result' = [result EXCEPT ![p] =
                        [NoResult EXCEPT !.status = errorHandler("ER_DUP_ENTRY"),
                                         !.error = "ER_DUP_ENTRY"]]
                   /\ local' = [local EXCEPT ![p].failedAt = "create"]
                   /\ pc' = [pc EXCEPT ![p] = "done"]
                   /\ UNCHANGED userBadges
              ELSE /\ userBadges' = [userBadges EXCEPT ![key] = @ + 1]
                   /\ result' = [result EXCEPT ![p].awarded_badge = local[p].badge]
                   /\ pc' = [pc EXCEPT ![p] = "getUpdatedScenario"]
                   /\ UNCHANGED local
  /\ UNCHANGED <<scenarioStore, stepStore, attempts, userLevels,
                 uniqueUserBadge, req, started, deleted, last>>
  /\ UNCHANGED accounts

\* scenarioService.getScenario for the snapshot, then res.status(200)
GetUpdatedScenario(p) ==
  /\ pc[p] = "getUpdatedScenario"
  /\ calls' = [calls EXCEPT ![p] = @ \cup {"getUpdatedScenario"}]
  /\ result' = [result EXCEPT ![p].updated_scenario = req[p].id \in scenarioStore,
                              ![p].status = 200]
  /\ pc' = [pc EXCEPT ![p] = "done"]
  /\ UNCHANGED <<stores, uniqueUserBadge, req, local, createCalls, started,
                 deleted, last>>
  /\ UNCHANGED accounts

\* The awaited calls of submit. The services wrap what their repository
\* throws in a plain Error, which loses the code of the driver; the
\* repositories submit calls itself throw the driver's error as it is.
ServiceCalls == {"getScenario", "getStepsByScenario", "getUpdatedScenario"}
GatewayCalls == {"upsertBestScore", "countPerfectByUserInLevel", "countByLevel",
                 "upsertProgress", "upsertNextLevel", "findByLevel",
                 "findByUserAndBadge", "create"}
FailureCodes == {"ECONNREFUSED", "ER_LOCK_DEADLOCK"}
Thrown(call, code) == IF call \in ServiceCalls THEN "Error" ELSE code

\* the error caught and dropped, the response sent as if the call had returned
FailSwallowed(p, code) ==
  /\ pc[p] \in ServiceCalls \cup GatewayCalls
  /\ calls' = [calls EXCEPT ![p] = @ \cup {pc[p]}]
  /\ local' = [local EXCEPT ![p].failedAt = pc[p]]
  /\ result' = [result EXCEPT ![p].error = Thrown(pc[p], code)]
  /\ pc' = [pc EXCEPT ![p] = "getUpdatedScenario"]
  /\ UNCHANGED <<stores, uniqueUserBadge, req, createCalls, started, deleted,
                 last>>
  /\ UNCHANGED accounts

\* an awaited call rejects: the catch of submit hands the error to next(e)
\* and errorHandler sends its status; nothing of the result is sent.
Fail(p, code) ==
  /\ pc[p] \in ServiceCalls \cup GatewayCalls
  /\ calls' = [calls EXCEPT ![p] = @ \cup {pc[p]}]
  /\ local' = [local EXCEPT ![p].failedAt = pc[p]]
  /\ result' = [result EXCEPT ![p] =
                  [NoResult EXCEPT !.status = errorHandler(Thrown(pc[p], code)),
                                   !.error = Thrown(pc[p], code)]]
  /\ pc' = [pc EXCEPT ![p] = "done"]
  /\ UNCHANGED <<stores, uniqueUserBadge, req, createCalls, started, deleted,
                 last>>
  /\ UNCHANGED accounts

\* the response has been delivered; the handler's frame is gone
Release(p) ==
  /\ pc[p] = "done"
  /\ pc' = [pc EXCEPT ![p] = "idle"]
  /\ req' = [req EXCEPT ![p] = NoRequest]
  /\ local' = [local EXCEPT ![p] = NoLocal]
  /\ result' = [result EXCEPT ![p] = NoResult]
  /\ calls' = [calls EXCEPT ![p] = {}]
  /\ UNCHANGED <<stores, uniqueUserBadge, createCalls, started, deleted>>
  /\ UNCHANGED accounts

Finish(p) == Release(p) /\ UNCHANGED last

\* as Finish, remembering a successful submission and the rows it left
FinishSerial(p) ==
  /\ Release(p)
  /\ last' = IF result[p].status = 200
               THEN [valid |-> TRUE, user |-> local[p].userId,
                     scenario |-> req[p].id, score |-> result[p].score,
                     all_correct |-> result[p].all_correct,
                     attempts |-> attempts, userLevels |-> userLevels,
                     userBadges |-> userBadges]
               ELSE last

\* DELETE /scenarios/:id by an admin: the scenario and its steps go
DeleteScenario(s) ==
  /\ s \in scenarioStore
  /\ deleted < MaxDeletes
  /\ deleted' = deleted + 1
  /\ scenarioStore' = scenarioStore \ {s}
  /\ stepStore' = [stepStore EXCEPT ![s] = {}]
  /\ last' = NoLast
  /\ UNCHANGED <<attempts, userLevels, userBadges, uniqueUserBadge, pc, req,
                 local, result, calls, createCalls, started>>
  /\ UNCHANGED accounts

\* DELETE /steps/:id by an admin: one step row of a scenario goes
DeleteStep(s, row) ==
  /\ row \in stepStore[s]
  /\ deleted < MaxDeletes
  /\ deleted' = deleted + 1
  /\ stepStore' = [stepStore EXCEPT ![s] = @ \ {row}]
  /\ last' = NoLast
  /\ UNCHANGED <<scenarioStore, attempts, userLevels, userBadges,
                 uniqueUserBadge, pc, req, local, result, calls, createCalls,
                 started>>
  /\ UNCHANGED accounts

\* POST /attempts: AttemptController.save hands user_id, scenario_id and
\* score of the body to attemptService.saveBestScore, which upserts them
\* without reading the stored row. The body carries no all_correct: the flag
\* of the row is cleared or left as it was.
SaveScores == {0, 50, 100}
SaveBestScore(u, s, score) ==
  /\ s \in scenarioStore
  /\ started < MaxRequests
  /\ started' = started + 1
  /\ \E allCorrect \in {FALSE, attempts[<<u, s>>].all_correct} :
       attempts' = upsertBestScore(u, s, score, allCorrect)
  /\ last' = NoLast
  /\ UNCHANGED <<scenarioStore, stepStore, userLevels, userBadges,
                 uniqueUserBadge, pc, req, local, result, calls, createCalls,
                 deleted>>
  /\ UNCHANGED accounts

\* POST /user-levels/upsert: UserLevelController.upsert takes user_id,
\* level_id, unlocked and completed from the body, no validator and no
\* middleware in front of it; a flag the body omits (NULL here) defaults to
\* false, and the row of (user, level) is overwritten with the two flags.
FlagValues == {"true", "false", NULL}
DefaultFalse(flag) == IF flag = NULL THEN FALSE ELSE flag = "true"
UpsertUserLevel(u, level, unlocked, completed) ==
  /\ started < MaxRequests
  /\ started' = started + 1
  /\ userLevels' = upsertProgress(userLevels, u, level, DefaultFalse(unlocked),
                                  DefaultFalse(completed))
  /\ last' = NoLast
  /\ UNCHANGED <<scenarioStore, stepStore, attempts, userBadges,
                 uniqueUserBadge, pc, req, local, result, calls, createCalls,
                 deleted>>
  /\ UNCHANGED accounts

(* --------------------------- specifications --------------------------- *)
Init ==
  /\ scenarioStore = ScenarioIds
  /\ stepStore = CatalogueSteps
  /\ attempts = [k \in Users \X ScenarioIds |-> NoAttempt]
  /\ userLevels = [k \in Users \X Levels |-> NoUserLevel]
  /\ userBadges = [k \in Users \X BadgeIds |-> 0]
  /\ uniqueUserBadge \in BOOLEAN
  /\ pc = [p \in Procs |-> "idle"]
  /\ req = [p \in Procs |-> NoRequest]
  /\ local = [p \in Procs |-> NoLocal]
  /\ result = [p \in Procs |-> NoResult]
  /\ calls = [p \in Procs |-> {}]
  /\ createCalls = [k \in Users \X BadgeIds |-> 0]
  /\ started = 0
  /\ deleted = 0
  /\ last = NoLast
  /\ userStore = [slot \in 1..MaxAccounts |-> "none"]
  /\ issued = {}

Step(p) ==
  \/ GetScenario(p)
  \/ GetStepsByScenario(p)
  \/ Grade(p)
  \/ UpsertBestScore(p)
  \/ CountPerfectByUserInLevel(p)
  \/ CountByLevel(p)
  \/ UpsertProgress(p)
  \/ UpsertNextLevel(p)
  \/ FindByLevel(p)
  \/ FindByUserAndBadge(p)
  \/ CreateUserBadge(p)
  \/ GetUpdatedScenario(p)

\* Authenticated, well-formed requests for scenarios of the catalogue are
\* handled concurrently, interleaved at every await.
Next ==
  \/ \E p \in Procs, token \in Users, id \in ScenarioIds, body \in ArrayBodies :
       started < MaxConcurrent /\ Receive(p, token, id, body)
  \/ \E p \in Procs : Step(p)
  \/ \E p \in Procs : Finish(p)
  \/ \E s \in ScenarioIds : DeleteScenario(s)

Spec == Init /\ [][Next]_vars

\* Requests of every kind, handled one at a time: a request is received, and
\* a scenario deleted, only while no other request is in flight.
NextSeq ==
  \/ \E p \in Procs, token \in Tokens, id \in RequestIds, body \in WorkflowBodies :
       AllIdle /\ Receive(p, token, id, body)
  \/ \E p \in Procs : Step(p)
  \/ \E p \in Procs : FinishSerial(p)
  \/ \E s \in ScenarioIds : AllIdle /\ DeleteScenario(s)
  \/ \E s \in ScenarioIds, row \in StepRows : AllIdle /\ DeleteStep(s, row)

SpecSeq == Init /\ [][NextSeq]_vars

\* One user's submissions, one at a time, and scores saved for that user
\* through POST /attempts between them.
NextBest ==
  \/ \E p \in Procs, id \in ScenarioIds, body \in ArrayBodies :
       AllIdle /\ Receive(p, 1, id, body)
  \/ \E p \in Procs : Step(p)
  \/ \E p \in Procs : FinishSerial(p)
  \/ \E s \in ScenarioIds, score \in SaveScores :
       AllIdle /\ SaveBestScore(1, s, score)

SpecBest == Init /\ [][NextBest]_vars

\* Authenticated submissions, one at a time, any awaited call of which may
\* fail.
NextFail ==
  \/ \E p \in Procs, token \in Users, id \in ScenarioIds, body \in ArrayBodies :
       AllIdle /\ Receive(p, token, id, body)
  \/ \E p \in Procs : Step(p)
  \/ \E p \in Procs, code \in FailureCodes : Fail(p, code)
  \/ \E p \in Procs : FinishSerial(p)

SpecFail == Init /\ [][NextFail]_vars

\* One user's submissions, one at a time, and rows of that user written
\* through POST /user-levels/upsert between them.
NextLevel ==
  \/ \E p \in Procs, id \in ScenarioIds, body \in ArrayBodies :
       AllIdle /\ Receive(p, 1, id, body)
  \/ \E p \in Procs : Step(p)
  \/ \E p \in Procs : FinishSerial(p)
  \/ \E level \in Levels, unlocked \in FlagValues, completed \in FlagValues :
       AllIdle /\ UpsertUserLevel(1, level, unlocked, completed)

SpecLevel == Init /\ [][NextLevel]_vars

\* ---------------------------------------------------------------------
\* User accounts: registration, login and the admin-guarded operations.
\* ---------------------------------------------------------------------

Accounts == 1..MaxAccounts

RoleFields == {NULL, "user", "admin"}

AccessTokens == [sub : Accounts, role : {"user", "admin"}]

\* data.role || "user"
RoleOrUser(role) == IF role = NULL THEN "user" ELSE role

\* req.user.role !== 'admin' answers 403
isAdmin(token) == token.role = "admin"

\* userRepository.create: the row is stored with the role it is given.
userRepositoryCreate(store, slot, role) == [store EXCEPT ![slot] = role]

\* userRepository.update: the fields given replace the stored ones.
userRepositoryUpdate(store, slot, role) ==
  [store EXCEPT ![slot] = IF role = NULL THEN @ ELSE role]

\* POST /users/register: no middleware; the body goes to the service whole.
Register(slot, role) ==
  /\ userStore[slot] = "none"
  /\ userStore' = userRepositoryCreate(userStore, slot, RoleOrUser(role))
  /\ UNCHANGED <<stores, uniqueUserBadge, pc, req, local, result, calls,
                 createCalls, started, deleted, last, issued>>

\* POST /users/login: the token carries the stored role.
Login(slot) ==
  /\ userStore[slot] # "none"
  /\ issued' = issued \cup {[sub |-> slot, role |-> userStore[slot]]}
  /\ UNCHANGED <<stores, uniqueUserBadge, pc, req, local, result, calls,
                 createCalls, started, deleted, last, userStore>>

\* POST /users behind requireAuth and isAdmin.
CreateUser(token, slot, role) ==
  /\ token \in issued
  /\ isAdmin(token)
  /\ userStore[slot] = "none"
  /\ userStore' = userRepositoryCreate(userStore, slot, RoleOrUser(role))
  /\ UNCHANGED <<stores, uniqueUserBadge, pc, req, local, result, calls,
                 createCalls, started, deleted, last, issued>>

\* PUT /users/:id behind requireAuth and isAdmin: the fields of the body
\* replace the stored ones.
UpdateUser(token, slot, role) ==
  /\ token \in issued
  /\ isAdmin(token)
  /\ userStore[slot] # "none"
  /\ userStore' = userRepositoryUpdate(userStore, slot, role)
  /\ UNCHANGED <<stores, uniqueUserBadge, pc, req, local, result, calls,
                 createCalls, started, deleted, last, issued>>

NextUsers ==
  \/ \E slot \in Accounts, role \in RoleFields : Register(slot, role)
  \/ \E slot \in Accounts : Login(slot)
  \/ \E token \in AccessTokens, slot \in Accounts, role \in RoleFields :
       CreateUser(token, slot, role)
  \/ \E token \in AccessTokens, slot \in Accounts, role \in RoleFields :
       UpdateUser(token, slot, role)

SpecUsers == Init /\ [][NextUsers]_vars

(* ------------------------------ grading ------------------------------- *)
\* Step tables for the graded scenario: at most MaxSteps rows, step_order
\* unique within the scenario.
StepTables ==
  {rows \in SUBSET StepRows :
     \A r1, r2 \in rows : r1.step_order = r2.step_order => r1 = r2}

RECURSIVE Arrays(_)
Arrays(n) ==
  IF n = 0 THEN {<<>>}
  ELSE Arrays(n - 1) \cup [1..n -> AnswerValues]

GradedScenario == Len(LevelOf)
GradeBodies == {[isArray |-> TRUE, userAnswers |-> a] : a \in Arrays(MaxAnswers)}

InitGrade ==
  /\ scenarioStore = ScenarioIds
  /\ \E rows \in StepTables :
       stepStore = [CatalogueSteps EXCEPT ![GradedScenario] = rows]
  /\ attempts = [k \in Users \X ScenarioIds |-> NoAttempt]
  /\ userLevels = [k \in Users \X Levels |-> NoUserLevel]
  /\ userBadges = [k \in Users \X BadgeIds |-> 0]
  /\ uniqueUserBadge = TRUE
  /\ pc = [p \in Procs |-> "idle"]
  /\ req = [p \in Procs |-> NoRequest]
  /\ local = [p \in Procs |-> NoLocal]
  /\ result = [p \in Procs |-> NoResult]
  /\ calls = [p \in Procs |-> {}]
  /\ createCalls = [k \in Users \X BadgeIds |-> 0]
  /\ started = 0
  /\ deleted = 0
  /\ last = NoLast
  /\ userStore = [slot \in 1..MaxAccounts |-> "none"]
  /\ issued = {}

\* One user submits any answer array for the graded scenario, whose level
\* (the ceiling) it is the only scenario of.
NextGrade ==
  \/ \E p \in Procs, body \in GradeBodies :
       started < MaxGraded /\ Receive(p, 1, GradedScenario, body)
  \/ \E p \in Procs :
       \/ GetScenario(p)
       \/ GetStepsByScenario(p)
       \/ Grade(p)
       \/ UpsertBestScore(p)
       \/ CountPerfectByUserInLevel(p)
       \/ CountByLevel(p)
       \/ UpsertProgress(p)
       \/ FindByLevel(p)
       \/ FindByUserAndBadge(p)
       \/ CreateUserBadge(p)
       \/ GetUpdatedScenario(p)
       \/ Finish(p)

SpecGrade == InitGrade /\ [][NextGrade]_vars

(* ======================= properties: grading ========================== *)
\* the rows of the scenario a request addresses, and their number
RowsOf(p) == IF req[p].id \in ScenarioIds THEN stepStore[req[p].id] ELSE {}
Answered(p) == result[p].status = 200

\* the step with exactly i rows of smaller step_order (i counted from 0)
NthStep(rows, i) ==
  CHOOSE r \in rows : Cardinality({q \in rows : q.step_order < r.step_order}) = i

\* equality of two strings ignoring case; a null or missing answer equals none
FoldCase(x) == CASE x = "A" -> "a" [] x = "B" -> "b" [] OTHER -> x
EqualsIgnoreCase(answer, action) ==
  answer # NULL /\ FoldCase(answer) = FoldCase(action)

\* an answer that is missing, null or the empty string
Blank(answers, i) == i + 1 > Len(answers) \/ answers[i + 1] \in {NULL, ""}

MatchCount(rows, answers) ==
  Cardinality({i \in 0..(Cardinality(rows) - 1) :
                 /\ i + 1 <= Len(answers)
                 /\ EqualsIgnoreCase(answers[i + 1], NthStep(rows, i).correct_action)})

NonBlankMatchCount(rows, answers) ==
  Cardinality({i \in 0..(Cardinality(rows) - 1) :
                 /\ ~Blank(answers, i)
                 /\ EqualsIgnoreCase(answers[i + 1], NthStep(rows, i).correct_action)})

\* r is x = 100 * c / n rounded to the nearest integer, halves up
IsRounded(r, c, n) ==
  /\ r \in 0..100
  /\ 2 * n * r <= 200 * c + n
  /\ 200 * c + n < 2 * n * (r + 1)

\* C1 as stated: the response has score = round(100 * c / n) and
\* all_correct = (c = n), c being the number of positions whose answer
\* equals the correct_action of the step at that position ignoring case.
C1_AsStated ==
  \A p \in Procs :
    Answered(p) =>
      LET n == Cardinality(RowsOf(p))
          c == MatchCount(RowsOf(p), req[p].userAnswers)
      IN  /\ IsRounded(result[p].score, c, n)
          /\ result[p].all_correct = (c = n)

\* C1 amended: the same with c counting only the positions whose answer is
\* neither missing, null nor empty and equals the correct_action ignoring
\* case; score is an integer in 0..100.
C1_Grading ==
  \A p \in Procs :
    Answered(p) =>
      LET n == Cardinality(RowsOf(p))
          c == NonBlankMatchCount(RowsOf(p), req[p].userAnswers)
      IN  /\ IsRounded(result[p].score, c, n)
          /\ result[p].all_correct = (c = n)

\* a graded response whose percentage is rounded up (2 of 3) 
C1_Witness ==
  \E p \in Procs :
    /\ Answered(p)
    /\ Cardinality(RowsOf(p)) = 3
    /\ NonBlankMatchCount(RowsOf(p), req[p].userAnswers) = 2
    /\ result[p].score = 67

\* C2: score and all_correct are the same for every order in which the step
\* lookup can return the rows, and the answer at position i is compared
\* with the step that has the i-th smallest step_order.
C2_OrderIndependent ==
  \A p \in Procs :
    Answered(p) =>
      LET rows == RowsOf(p)
          n == Cardinality(rows)
      IN  /\ \A i \in 0..(n - 1) : local[p].steps[i + 1] = NthStep(rows, i)
          /\ \A o \in Orderings(rows) :
               LET c == CorrectCount(SortSteps(o), req[p].userAnswers)
               IN  /\ result[p].score = RoundPercent(c, n)
                   /\ result[p].all_correct = (c = n)

\* a graded response whose steps were returned in descending step_order and
\* whose answers are right only for the ascending order
C2_Witness ==
  \E p \in Procs :
    /\ Answered(p)
    /\ Len(local[p].fetched) = 3
    /\ \A i \in 1..2 :
         local[p].fetched[i].step_order > local[p].fetched[i + 1].step_order
    /\ local[p].fetched[1].correct_action # local[p].fetched[3].correct_action
    /\ result[p].all_correct

\* C3: an array shorter or longer than the step list is graded all the
\* same (status 200); a position whose answer is missing, null or empty is
\* counted incorrect whatever the step's correct_action; answers at
\* positions past the last step do not influence score or all_correct.
C3_BlankAndExtra ==
  \A p \in Procs :
    /\ (pc[p] = "done" /\ RowsOf(p) # {}) => result[p].status = 200
    /\ Answered(p) =>
         LET rows == RowsOf(p)
             n == Cardinality(rows)
             answers == req[p].userAnswers
             blanks == Cardinality({i \in 0..(n - 1) : Blank(answers, i)})
             kept == SubSeq(answers, 1, IF Len(answers) < n THEN Len(answers) ELSE n)
             c == NonBlankMatchCount(rows, kept)
         IN  /\ 2 * n * result[p].score <= 200 * (n - blanks) + n
             /\ result[p].all_correct => blanks = 0
             /\ IsRounded(result[p].score, c, n)
             /\ result[p].all_correct = (c = n)

\* a graded response to an array shorter than the step list, the unanswered
\* step having an empty correct_action
C3_Witness ==
  \E p \in Procs :
    /\ Answered(p)
    /\ Len(req[p].userAnswers) < Cardinality(RowsOf(p))
    /\ \E i \in Len(req[p].userAnswers)..(Cardinality(RowsOf(p)) - 1) :
         NthStep(RowsOf(p), i).correct_action = ""
    /\ ~result[p].all_correct

(* ====================== properties: progression ======================= *)
Sent(p) == pc[p] = "done"
Authenticated(p) == req[p].token \in Users
WellFormed(p) == req[p].isArray /\ req[p].id \in scenarioStore /\ RowsOf(p) # {}
BadgeKeys == Users \X BadgeIds

C5_AwardOnce ==
  \A k \in BadgeKeys : createCalls[k] <= 1 /\ userBadges[k] <= 1

\* a submission that completed the level again found the badge row of an
\* earlier award and created none
C5_Witness ==
  \E p \in Procs :
    /\ Sent(p) /\ result[p].status = 200
    /\ result[p].level_progress.completed
    /\ "findByUserAndBadge" \in calls[p]
    /\ "create" \notin calls[p]
    /\ userBadges[<<local[p].userId, local[p].badge>>] = 1
    /\ createCalls[<<local[p].userId, local[p].badge>>] = 1

\* C6 as stated: with concurrent submissions there is in no reachable state
\* more than one UserBadge row for a (user, badge) pair.
C6_AsStated ==
  \A k \in BadgeKeys : userBadges[k] <= 1

\* C7: in the response of an authenticated submission, completed is true
\* exactly if the total read in that submission is > 0 and equals the
\* perfect count read in it; the incomplete response carries those two
\* counts; a level found with zero scenarios is not reported completed.
C7_CompletedFromCounts ==
  \A p \in Procs :
    (Sent(p) /\ result[p].status = 200) =>
      LET lp == result[p].level_progress
          perfect == local[p].perfectInLevel
          total == local[p].totalInLevel
      IN  /\ lp.present
          /\ lp.completed = (total > 0 /\ perfect = total)
          /\ total = 0 => ~lp.completed
          /\ ~lp.completed => (lp.perfect_in_level = perfect /\ lp.total_in_level = total)
          /\ {"countPerfectByUserInLevel", "countByLevel"} \subseteq calls[p]

\* a submission that found its level without scenarios and reported it
\* not completed
C7_Witness ==
  \E p \in Procs :
    /\ Sent(p) /\ result[p].status = 200
    /\ local[p].totalInLevel = 0 /\ local[p].perfectInLevel = 0
    /\ ~result[p].level_progress.completed

\* C8: a submission upserts UserLevel(user, level + 1), with unlocked = true
\* and completed = false, exactly if completed_this_level is true in it and
\* its level is below the ceiling 6; no UserLevel row exists for level 7.
C8_UnlockBelowCeiling ==
  /\ \A u \in Users : ~userLevels[<<u, TopLevel>>].exists
  /\ \A p \in Procs :
       (Sent(p) /\ result[p].status = 200) =>
         /\ ("upsertNextLevel" \in calls[p])
              = (local[p].completedThisLevel /\ local[p].level_id < 6)
         /\ "upsertNextLevel" \in calls[p] =>
              userLevels[<<local[p].userId, local[p].level_id + 1>>]
                = [exists |-> TRUE, unlocked |-> TRUE, completed |-> FALSE]

\* a submission that completed the ceiling level and unlocked nothing
C8_Witness ==
  \E p \in Procs :
    /\ Sent(p) /\ result[p].status = 200
    /\ local[p].completedThisLevel /\ local[p].level_id = 6
    /\ "upsertNextLevel" \notin calls[p]

\* C9 as stated: a completed UserLevel(user, L + 1) is still completed after
\* the next-level unlock of a submission by that user that completes L.
C9_AsStated ==
  [][\A p \in Procs :
       (/\ pc[p] = "upsertNextLevel"
        /\ pc'[p] # "upsertNextLevel"
        /\ userLevels[<<local[p].userId, local[p].level_id + 1>>].completed)
       => userLevels'[<<local[p].userId, local[p].level_id + 1>>].completed]_vars

\* C10: a successful submission that repeats the previous one (same user,
\* scenario and grading result, nothing in between) leaves the Attempt and
\* UserLevel rows the previous one left, adds no UserBadge row and reports
\* no awarded_badge.
Repeats(p) ==
  /\ last.valid
  /\ last.user = local[p].userId
  /\ last.scenario = req[p].id
  /\ last.score = result[p].score
  /\ last.all_correct = result[p].all_correct

C10_Idempotent ==
  \A p \in Procs :
    (Sent(p) /\ result[p].status = 200 /\ Repeats(p)) =>
      /\ attempts = last.attempts
      /\ userLevels = last.userLevels
      /\ userBadges = last.userBadges
      /\ result[p].awarded_badge = 0

\* the repetition of a perfect submission that had been awarded the badge
C10_Witness ==
  \E p \in Procs :
    /\ Sent(p) /\ result[p].status = 200 /\ Repeats(p)
    /\ result[p].level_progress.completed
    /\ local[p].badge # 0
    /\ userBadges[<<local[p].userId, local[p].badge>>] = 1

(* ================= properties: writes of a submission ================= *)
\* the UserLevel row of the level a request's scenario belongs to
CurrentLevelRow(p) == userLevels[<<local[p].userId, local[p].level_id>>]

\* C11: a submission that passed grading upserts UserLevel(user, level of
\* the scenario) with unlocked = true and completed = the
\* completed_this_level it computed, whatever the row held before; when it
\* has answered, with no other submission overlapping, the row exists with
\* exactly those values.
C11_CurrentLevelUpsert ==
  \A p \in Procs :
    /\ (Sent(p) /\ result[p].status = 200) => "upsertProgress" \in calls[p]
    /\ "upsertProgress" \in calls[p] =>
         CurrentLevelRow(p) = [exists |-> TRUE, unlocked |-> TRUE,
                               completed |-> local[p].completedThisLevel]

\* a submission that found its level completed by the previous one and
\* left it not completed
C11_Witness ==
  \E p \in Procs :
    /\ Sent(p) /\ result[p].status = 200
    /\ last.valid /\ last.user = local[p].userId
    /\ last.userLevels[<<local[p].userId, local[p].level_id>>].completed
    /\ ~local[p].completedThisLevel
    /\ ~CurrentLevelRow(p).completed

\* the Attempt row of the pair a request addresses
AttemptRow(p) == attempts[<<local[p].userId, req[p].id>>]
Graded(p) == [exists |-> TRUE, score |-> result[p].score,
              all_correct |-> result[p].all_correct]

C13_AsStated ==
  [][\A k \in Users \X ScenarioIds :
       attempts[k].exists => attempts'[k].score >= attempts[k].score]_vars

(* ================== properties: rejected submissions ================== *)
\* C14: a submission whose userAnswers is missing or not an array is
\* answered 400 with no store operation invoked for it: no scenario or step
\* lookup, and no Attempt, UserLevel or UserBadge row created or changed.
C14_NotAnArray ==
  /\ [](\A p \in Procs :
          (pc[p] # "idle" /\ Authenticated(p) /\ ~req[p].isArray) =>
            /\ Sent(p)
            /\ result[p] = [NoResult EXCEPT !.status = 400]
            /\ calls[p] = {})
  /\ [][\A p \in Procs :
          (pc[p] = "idle" /\ pc'[p] # "idle" /\ ~req'[p].isArray) =>
            UNCHANGED stores]_vars

\* an authenticated submission for a scenario of the catalogue, without an
\* answer array, has been answered
C14_Witness ==
  \E p \in Procs :
    /\ Sent(p) /\ Authenticated(p) /\ ~req[p].isArray
    /\ req[p].id \in scenarioStore /\ RowsOf(p) # {}
    /\ result[p].status = 400

\* a request for a scenario that does not exist or has no steps
Lookups == {"getScenario", "getStepsByScenario"}
NothingToGrade(p) ==
  req[p].isArray /\ (req[p].id \notin scenarioStore \/ RowsOf(p) = {})

CallOrder == <<"getScenario", "getStepsByScenario", "upsertBestScore",
               "countPerfectByUserInLevel", "countByLevel", "upsertProgress",
               "upsertNextLevel", "findByLevel", "findByUserAndBadge", "create",
               "getUpdatedScenario">>
Rank(call) == CHOOSE i \in DOMAIN CallOrder : CallOrder[i] = call
Failed(p) == local[p].failedAt \in GatewayCalls
Completed(p, call) == call \in calls[p] /\ local[p].failedAt # call

\* C16: when a persistence call of the progression steps fails, the
\* submission is answered by the error handler with nothing of the result
\* (never 200), no call that follows the failed one in the sequence is made
\* and no store changes any more, and every write made before the failure
\* is still in place.
C16_NoRollback ==
  /\ [](\A p \in Procs :
          Failed(p) =>
            /\ Sent(p)
            /\ result[p].status # 200
            /\ result[p] = [NoResult EXCEPT !.status = result[p].status,
                                            !.error = result[p].error]
            /\ \A call \in calls[p] : Rank(call) <= Rank(local[p].failedAt)
            /\ Completed(p, "upsertBestScore") =>
                 attempts[<<local[p].userId, req[p].id>>] =
                   [exists |-> TRUE, score |-> local[p].score,
                    all_correct |-> local[p].allCorrect]
            /\ Completed(p, "upsertProgress") =>
                 CurrentLevelRow(p) =
                   [exists |-> TRUE, unlocked |-> TRUE,
                    completed |-> local[p].completedThisLevel]
            /\ Completed(p, "upsertNextLevel") =>
                 userLevels[<<local[p].userId, local[p].level_id + 1>>] =
                   [exists |-> TRUE, unlocked |-> TRUE, completed |-> FALSE])
  /\ [][(\E p \in Procs : Failed(p)) => UNCHANGED stores]_vars

\* a submission that completed level 5 and failed at the unlock of level 6:
\* the attempt and the completion are stored, level 6 is not unlocked
C16_Witness ==
  \E p \in Procs :
    /\ Sent(p) /\ local[p].failedAt = "upsertNextLevel"
    /\ result[p].status = 503
    /\ AttemptRow(p).exists /\ AttemptRow(p).all_correct
    /\ CurrentLevelRow(p).completed
    /\ ~userLevels[<<local[p].userId, local[p].level_id + 1>>].exists

\* C17 as stated: a submission one of whose persistence calls in the
\* progression steps failed is answered with a server error (5xx), never
\* with a client error or a success.
C17_AsStated ==
  \A p \in Procs :
    (Sent(p) /\ Failed(p)) => result[p].status \in 500..599

\* C20 as stated: a submission whose UserBadge insert is rejected because a
\* concurrent submission inserted the pair first is answered 200 without
\* awarded_badge.
C20_AsStated ==
  \A p \in Procs :
    (Sent(p) /\ local[p].failedAt = "create" /\ result[p].error = "ER_DUP_ENTRY") =>
      (result[p].status = 200 /\ result[p].awarded_badge = 0)

(* ===================== properties: badge award ======================== *)
\* the submission of p has inserted a UserBadge row
Created(p) == "create" \in calls[p] /\ local[p].failedAt # "create"

\* C18: the response of a submission carries awarded_badge exactly when
\* that submission inserted the UserBadge row, and then it names the badge
\* of the level; a submission that found the row, found no badge for the
\* level or did not complete the level carries none. A row is inserted
\* only by a submission that reports it.
C18_AwardedIffCreated ==
  /\ [](\A p \in Procs :
          Sent(p) =>
            /\ (result[p].awarded_badge # 0) = Created(p)
            /\ Created(p) =>
                 /\ result[p].status = 200
                 /\ result[p].awarded_badge = findByLevel(local[p].level_id)
                 /\ local[p].completedThisLevel
                 /\ userBadges[<<local[p].userId, local[p].badge>>] >= 1)
  /\ [][\A k \in BadgeKeys :
          userBadges'[k] # userBadges[k] =>
            \E p \in Procs :
              /\ pc[p] = "create" /\ pc'[p] = "getUpdatedScenario"
              /\ k = <<local[p].userId, local[p].badge>>
              /\ userBadges'[k] = userBadges[k] + 1
              /\ result[p].awarded_badge = 0
              /\ result'[p].awarded_badge = k[2]]_vars

\* two answered submissions of one user that both completed the badge
\* level: one inserted the row and reports the badge, the other found the
\* row and reports none
C18_Witness ==
  \E p, q \in Procs :
    /\ Sent(p) /\ result[p].status = 200
    /\ Sent(q) /\ result[q].status = 200
    /\ local[p].userId = local[q].userId
    /\ local[p].completedThisLevel /\ local[q].completedThisLevel
    /\ result[p].awarded_badge = local[p].badge /\ local[p].badge # 0
    /\ "findByUserAndBadge" \in calls[q] /\ result[q].awarded_badge = 0

(* ================ properties: completion in one pass ================== *)
\* the scenario a request addresses is the only one of its level
OnlyScenarioOfLevel(p) ==
  req[p].id \in scenarioStore /\ countByLevel(LevelOf[req[p].id]) = 1

AllPerfect(u, level) ==
  /\ countByLevel(level) > 0
  /\ \A s \in scenarioStore :
       LevelOf[s] = level => (attempts[<<u, s>>].exists /\ attempts[<<u, s>>].all_correct)

Quiescent == \A p \in Procs : pc[p] \in {"idle", "done"}

\* C21 as stated: once concurrent submissions of one user for scenarios of
\* one level have all finished (the catalogue unchanged), the completed flag
\* of the user's row for the level says whether every scenario of the level
\* has a perfect Attempt of the user in the final Attempt rows.
C21_AsStated ==
  (Quiescent /\ deleted = 0) =>
    \A p \in Procs :
      (Sent(p) /\ result[p].status = 200) =>
        CurrentLevelRow(p).completed = AllPerfect(local[p].userId, local[p].level_id)

\* two answered perfect submissions of one user that together cover the
\* scenarios of one level, nothing else having been submitted
CoverLevel(p, q) ==
  /\ Sent(p) /\ Sent(q)
  /\ local[p].userId = local[q].userId
  /\ local[p].level_id = local[q].level_id
  /\ local[p].allCorrect /\ local[q].allCorrect
  /\ {s \in scenarioStore : LevelOf[s] = local[p].level_id} = {req[p].id, req[q].id}
  /\ started = Cardinality({p, q})

\* C22: when concurrent perfect submissions of one user cover all scenarios
\* of a level (no imperfect submission of the user in between, the catalogue
\* unchanged), at least one of them finds the level completed, and that one
\* has unlocked the next level (below the ceiling) and looked the badge up,
\* awarding it if the level has one.
C22_CompletionObserved ==
  \A p, q \in Procs :
    (CoverLevel(p, q) /\ deleted = 0) =>
      \E r \in {p, q} :
        /\ local[r].completedThisLevel
        /\ result[r].status = 200 => result[r].level_progress.completed
        /\ BelowCeiling(local[r].level_id) =>
             /\ "upsertNextLevel" \in calls[r]
             /\ userLevels[<<local[r].userId, local[r].level_id + 1>>].unlocked
        /\ "findByLevel" \in calls[r]
        /\ local[r].badge # 0 => userBadges[<<local[r].userId, local[r].badge>>] >= 1

\* the two scenarios of level 5 perfected by two overlapping submissions,
\* the first of which counted before the second had written
C22_Witness ==
  \E p, q \in Procs :
    /\ CoverLevel(p, q) /\ deleted = 0
    /\ req[p].id # req[q].id
    /\ ~local[p].completedThisLevel /\ local[p].perfectInLevel = 1
    /\ local[q].completedThisLevel
    /\ userLevels[<<local[q].userId, local[q].level_id + 1>>].unlocked

C24_AsStated ==
  \A p \in Procs :
    (Sent(p) /\ result[p].status = 200
       /\ result[p].level_progress.next_level_unlocked # 0) =>
      /\ "upsertNextLevel" \in calls[p]
      /\ userLevels[<<local[p].userId,
                      result[p].level_progress.next_level_unlocked>>].unlocked

\* C25: a UserBadge row is inserted only by a submission that found its
\* level completed and found a Badge for that level, for that user and that
\* badge; a submission that completes a level without a Badge is answered
\* 200 and inserts no row.
C25_BadgeOnlyOnCompletion ==
  /\ [](\A p \in Procs :
          (Sent(p) /\ local[p].completedThisLevel
             /\ findByLevel(local[p].level_id) = 0) =>
            /\ result[p].status = 200
            /\ "findByLevel" \in calls[p]
            /\ calls[p] \cap {"findByUserAndBadge", "create"} = {}
            /\ result[p].awarded_badge = 0)
  /\ [][\A k \in BadgeKeys :
          userBadges'[k] # userBadges[k] =>
            \E p \in Procs :
              /\ pc[p] = "create"
              /\ local[p].completedThisLevel
              /\ findByLevel(local[p].level_id) # 0
              /\ k = <<local[p].userId, findByLevel(local[p].level_id)>>]_vars

\* a submission that completed level 5, which has no Badge, has been
\* answered 200 while no UserBadge row exists at all
C25_Witness ==
  \E p \in Procs :
    /\ Sent(p) /\ result[p].status = 200
    /\ local[p].completedThisLevel
    /\ findByLevel(local[p].level_id) = 0
    /\ result[p].level_progress.completed
    /\ \A k \in BadgeKeys : userBadges[k] = 0

\* C26 as stated: a submission for a scenario of a level above 1 writes its
\* Attempt (and then the level's UserLevel row) only if the user's row for
\* that level was unlocked when the submission began.
C26_AsStated ==
  [][\A p \in Procs :
       (pc[p] = "upsertBestScore" /\ pc'[p] # pc[p] /\ local[p].level_id > 1) =>
         userLevels[<<local[p].userId, local[p].level_id>>].unlocked]_vars

(* ======================= properties: frame ============================ *)
\* C27: a step of the submission of user u for scenario s of level L
\* changes no Attempt row but (u, s), no UserLevel row but (u, L) and
\* (u, L + 1), no UserBadge row but (u, badge of L), and neither the
\* scenarios nor the steps.
C27_Frame ==
  [][\A p \in Procs :
       pc'[p] # pc[p] =>
         /\ scenarioStore' = scenarioStore
         /\ stepStore' = stepStore
         /\ \A k \in DOMAIN attempts :
              attempts'[k] # attempts[k] => k = <<local[p].userId, req[p].id>>
         /\ \A k \in DOMAIN userLevels :
              userLevels'[k] # userLevels[k] =>
                k \in {<<local[p].userId, local[p].level_id>>,
                       <<local[p].userId, local[p].level_id + 1>>}
         /\ \A k \in DOMAIN userBadges :
              userBadges'[k] # userBadges[k] =>
                k = <<local[p].userId, findByLevel(local[p].level_id)>>]_vars

\* a submission that completed its level and unlocked the next one, while
\* another user holds an Attempt for the same scenario and a row for the
\* same level
C27_Witness ==
  \E p \in Procs, u \in Users :
    /\ Sent(p) /\ result[p].status = 200
    /\ "upsertNextLevel" \in calls[p]
    /\ u # local[p].userId
    /\ attempts[<<u, req[p].id>>].exists
    /\ ~attempts[<<u, req[p].id>>].all_correct
    /\ userLevels[<<u, local[p].level_id>>].exists
    /\ ~userLevels[<<u, local[p].level_id>>].completed
    /\ ~userLevels[<<u, local[p].level_id + 1>>].exists

\* C28: no step removes an Attempt row or a UserBadge row: a row that
\* exists still exists after every step, also the badge of a level whose
\* completed flag a later imperfect submission sets back to false.
C28_RowsStay ==
  [][/\ \A k \in DOMAIN attempts : attempts[k].exists => attempts'[k].exists
     /\ \A k \in BadgeKeys : userBadges'[k] >= userBadges[k]]_vars

\* an answered imperfect submission for the badge level: the level is no
\* longer completed, the attempt is no longer perfect, the badge is held
C28_Witness ==
  \E p \in Procs :
    /\ Sent(p) /\ result[p].status = 200
    /\ ~result[p].all_correct /\ ~local[p].completedThisLevel
    /\ findByLevel(local[p].level_id) # 0
    /\ userBadges[<<local[p].userId, findByLevel(local[p].level_id)>>] >= 1
    /\ CurrentLevelRow(p) = [exists |-> TRUE, unlocked |-> TRUE, completed |-> FALSE]
    /\ AttemptRow(p).exists /\ ~AttemptRow(p).all_correct

\* C29 as stated: in every reachable state, after submissions and after the
\* user-level upsert operation alike, a UserLevel row with completed = true
\* has unlocked = true.
C29_AsStated ==
  \A k \in DOMAIN userLevels : userLevels[k].completed => userLevels[k].unlocked

\* C30: as long as no access token with role admin has been signed, so that
\* every request so far was made without an admin token, no user record
\* has role admin.
C30_AsStated ==
  (\A token \in issued : ~isAdmin(token))
    => \A slot \in Accounts : userStore[slot] # "admin"

====
